---- MODULE Spec2Model ----
(***************************************************************************)
(* A model of the barcode reader command line utility:                     *)
(*   app/logging_utils.py   configure_logging                              *)
(*   app/barcode_reader.py  BarcodeReader (the SDK adapter)                *)
(*   app/cli.py             main, _ensure_credentials, _format_table       *)
(*                                                                         *)
(* Python values are tagged tuples: <<"null">> is None, <<"str", s>> a str *)
(* whose characters are the sequence s, <<"num", n>> a float held in fixed *)
(* point (n ten-thousandths), <<"list", l>> a list.  <<"absent">> stands   *)
(* for an attribute the object does not have (getattr's default applies).  *)
(* A text (str content, stdout) is a sequence of one-character strings.    *)
(*                                                                         *)
(* A run starts when argparse has parsed the arguments.  The request sent  *)
(* to the service (image bytes, type filters, preset) decides no outcome   *)
(* of the program and is not part of the state; the service's answer is an *)
(* input of the run.                                                       *)
(***************************************************************************)
EXTENDS Integers, Sequences, FiniteSets, TLC

VARIABLES
    pc,             \* position of main: see the actions below
    client_id,      \* args.client_id after flag/environment resolution
    client_secret,  \* args.client_secret after flag/environment resolution
    base_url,       \* args.base_url
    image_exists,   \* whether args.image names an existing file
    json,           \* args.json
    new_sdk,        \* _NEW_SDK, fixed at import time
    cfg_attrs,      \* attributes the legacy vendor Configuration() exposes
    remote,         \* what the remote service answers to the recognition call
    configuration,  \* what _build_configuration returned or raised
    api_client,     \* self._api_client: "none", "open" or "closed"
    remote_calls,   \* the BarcodeApi methods called so far, in order
    results,        \* the list scan_image returned
    pending,        \* exception raised inside the with block, not yet propagated
    exit_code,      \* -1 while running, then the process exit code
    error,          \* the exception that ended the run, "none" otherwise
    stdout,         \* text written to sys.stdout
    log_file,       \* [dir, file: BOOLEAN, lines: messages written to the file]
    steps           \* the steps of main taken so far, in order

vars == <<pc, client_id, client_secret, base_url, image_exists, json, new_sdk,
          cfg_attrs, remote, configuration, api_client, remote_calls, results,
          pending, exit_code, error, stdout, log_file, steps>>

(***************************************************************************)
(* Bounds of the model.                                                    *)
(***************************************************************************)
\* longest barcode list of a remote response
MaxItems == 2
\* longest result list handed to the output stage
MaxResults == 2

(***************************************************************************)
(* Python values.                                                          *)
(***************************************************************************)
Absent == <<"absent">>
Null == <<"null">>
Str(s) == <<"str", s>>
Num(n) == <<"num", n>>
List(l) == <<"list", l>>

IsAbsent(v) == v[1] = "absent"
IsNull(v) == v[1] = "null"
IsStr(v) == v[1] = "str"
IsNum(v) == v[1] = "num"
IsList(v) == v[1] = "list"

\* bool(v)
Truthy(v) ==
    CASE IsStr(v) -> v[2] # <<>>
      [] IsList(v) -> v[2] # <<>>
      [] IsNum(v) -> v[2] # 0
      [] OTHER -> FALSE

\* getattr(obj, name, default), the attribute's state given as field
GetAttr(field, default) == IF IsAbsent(field) THEN default ELSE field

\* all sequences over S of length at most n
SeqsUpTo(S, n) == UNION {[1..k -> S] : k \in 0..n}

(***************************************************************************)
(* barcode_reader.py: BarcodeReader._build_configuration.                  *)
(* A configuration object is a function from its attribute names to their  *)
(* values; the legacy Configuration() starts with every attribute it       *)
(* exposes set to None.                                                    *)
(***************************************************************************)
LegacyAttributes ==
    {"client_id", "app_sid", "client_secret", "app_key", "api_base_url", "base_url"}

Returned(cfg) == [raised |-> "none", cfg |-> cfg]
Raised(exc, cfg) == [raised |-> exc, cfg |-> cfg]

\* lines 57-61: the new SDK takes the credentials as constructor fields
BuildConfigurationNew(cid, secret, url) ==
    LET c0 == [a \in {"client_id", "client_secret"} |->
                  IF a = "client_id" THEN cid ELSE secret]
    IN  IF Truthy(url)
        THEN Returned(("api_base_url" :> url) @@ c0)
        ELSE Returned(c0)

\* lines 63-83: the legacy SDK is probed attribute by attribute
BuildConfigurationLegacy(attrs, cid, secret, url) ==
    LET c0 == [a \in attrs |-> Null]
        hasattr(a) == a \in attrs
        c1 == IF hasattr("client_id") THEN [c0 EXCEPT !["client_id"] = cid]
              ELSE [c0 EXCEPT !["app_sid"] = cid]
        c2 == IF hasattr("client_secret") THEN [c1 EXCEPT !["client_secret"] = secret]
              ELSE [c1 EXCEPT !["app_key"] = secret]
        c3 == IF Truthy(url)
              THEN IF hasattr("api_base_url") THEN [c2 EXCEPT !["api_base_url"] = url]
                   ELSE IF hasattr("base_url") THEN [c2 EXCEPT !["base_url"] = url]
                   ELSE c2
              ELSE c2
    IN  IF ~hasattr("client_id") /\ ~hasattr("app_sid")
        THEN Raised("AttributeError", c0)
        ELSE IF ~hasattr("client_secret") /\ ~hasattr("app_key")
        THEN Raised("AttributeError", c1)
        ELSE Returned(c3)

BuildConfiguration(sdk, attrs, cid, secret, url) ==
    IF sdk THEN BuildConfigurationNew(cid, secret, url)
    ELSE BuildConfigurationLegacy(attrs, cid, secret, url)

(***************************************************************************)
(* barcode_reader.py: the response of the recognition call and its         *)
(* normalisation into RecognizedBarcode records.                           *)
(* A response is [barcodes, barcode_list], each absent, None or a list of  *)
(* items; an item is [barcode_value, type, code_type_name, confidence],    *)
(* each absent, None or a value.                                           *)
(***************************************************************************)
RecognizedBarcode(value, symbology, confidence) ==
    [value |-> value, symbology |-> symbology, confidence |-> confidence]

\* lines 129-133 and 156-160: one item of the response
NormalizeItem(item) ==
    RecognizedBarcode(
        GetAttr(item.barcode_value, Str(<<>>)),
        GetAttr(item.type, GetAttr(item.code_type_name, Str(<<>>))),
        GetAttr(item.confidence, Null))

\* mutant of lines 127 and 154: the first field present wins, empty or not
ResponseListFirstPresent(response) ==
    IF ~IsAbsent(response.barcodes) THEN response.barcodes
    ELSE GetAttr(response.barcode_list, List(<<>>))

\* lines 127 and 154: getattr(response, "barcodes", None) or
\* getattr(response, "barcode_list", [])
ResponseList(response) ==
    LET first == GetAttr(response.barcodes, Null)
    IN  IF Truthy(first) THEN first ELSE GetAttr(response.barcode_list, List(<<>>))

ScanReturned(list) == [raised |-> "none", list |-> list]
ScanRaised(exc) == [raised |-> exc, list |-> <<>>]

\* lines 126-135
ScanWithNewSdk(response) ==
    LET found == ResponseList(response)
    IN  IF IsList(found)
        THEN ScanReturned([i \in 1..Len(found[2]) |-> NormalizeItem(found[2][i])])
        ELSE ScanRaised("TypeError")  \* iterating over None

\* lines 153-162
ScanWithLegacySdk(response) ==
    LET found == ResponseList(response)
    IN  IF IsList(found)
        THEN ScanReturned([i \in 1..Len(found[2]) |-> NormalizeItem(found[2][i])])
        ELSE ScanRaised("TypeError")  \* iterating over None

\* the BarcodeApi method each variant calls
ApiMethod(sdk) ==
    IF sdk THEN "scan_base64" ELSE "post_barcode_recognize_from_url_or_content"

(***************************************************************************)
(* Texts.                                                                  *)
(***************************************************************************)
DigitChars == <<"0", "1", "2", "3", "4", "5", "6", "7", "8", "9">>
Digit(d) == DigitChars[d + 1]

RECURSIVE NatStr(_)
NatStr(n) == IF n < 10 THEN <<Digit(n)>> ELSE NatStr(n \div 10) \o <<Digit(n % 10)>>

RECURSIVE Join(_, _)
\* sep.join(rows)
Join(rows, sep) ==
    IF rows = <<>> THEN <<>>
    ELSE IF Len(rows) = 1 THEN rows[1]
    ELSE rows[1] \o sep \o Join(Tail(rows), sep)

RECURSIVE StripZeros(_)
StripZeros(ds) ==
    IF Len(ds) > 1 /\ ds[Len(ds)] = "0" THEN StripZeros(SubSeq(ds, 1, Len(ds) - 1))
    ELSE ds

\* repr of the float n/10000: shortest digits, at least one after the point
FloatRepr(n) ==
    LET f == n % 10000
    IN  NatStr(n \div 10000) \o <<".">> \o
        StripZeros(<<Digit(f \div 1000), Digit((f \div 100) % 10),
                     Digit((f \div 10) % 10), Digit(f % 10)>>)

\* format(n/10000, ".2%"): the value times 100, two decimals, a percent sign
PercentFormat(n) ==
    NatStr(n \div 100) \o <<".", Digit((n % 100) \div 10), Digit(n % 10), "%">>

\* str(v), as an f-string field renders it
PyStr(v) ==
    CASE IsStr(v) -> v[2]
      [] IsNum(v) -> FloatRepr(v[2])
      [] OTHER -> <<"N", "o", "n", "e">>

(***************************************************************************)
(* cli.py: the output stage.                                               *)
(***************************************************************************)
NoBarcodesFound ==
    <<"N", "o", " ", "b", "a", "r", "c", "o", "d", "e", "s", " ",
      "f", "o", "u", "n", "d", ".">>

\* mutant of line 80: the confidence is tested for truth, not for its type
FormatRowTruthyConfidence(item) ==
    LET confidence_str ==
            IF Truthy(item.confidence)
            THEN <<" ", "(">> \o PercentFormat(item.confidence[2]) \o <<")">>
            ELSE <<>>
    IN  PyStr(item.symbology) \o <<":", " ">> \o PyStr(item.value) \o confidence_str

\* lines 77-81: one row of the table
FormatRow(item) ==
    LET confidence_str ==
            IF IsNum(item.confidence)
            THEN <<" ", "(">> \o PercentFormat(item.confidence[2]) \o <<")">>
            ELSE <<>>
    IN  PyStr(item.symbology) \o <<":", " ">> \o PyStr(item.value) \o confidence_str

\* lines 74-82
FormatTable(payload) ==
    LET rows == [i \in 1..Len(payload) |-> FormatRow(payload[i])]
    IN  IF rows # <<>> THEN Join(rows, <<"\n">>) ELSE NoBarcodesFound

\* mutant of the string encoder: nothing is escaped
JsonEscapeNothing(c) == <<c>>

\* json.dumps of a str with ensure_ascii=False
JsonEscape(c) ==
    CASE c = "\"" -> <<"\\", "\"">>
      [] c = "\\" -> <<"\\", "\\">>
      [] c = "\n" -> <<"\\", "n">>
      [] OTHER -> <<c>>

RECURSIVE JsonEscapeAll(_)
JsonEscapeAll(s) ==
    IF s = <<>> THEN <<>> ELSE JsonEscape(Head(s)) \o JsonEscapeAll(Tail(s))

JsonString(s) == <<"\"">> \o JsonEscapeAll(s) \o <<"\"">>

JsonScalar(v) ==
    CASE IsStr(v) -> JsonString(v[2])
      [] IsNum(v) -> FloatRepr(v[2])
      [] OTHER -> <<"n", "u", "l", "l">>

\* one member of an object at indent level 2: four spaces, "key": value
JsonMember(key, v) ==
    <<" ", " ", " ", " ">> \o JsonString(key) \o <<":", " ">> \o JsonScalar(v)

\* one object of the array at indent level 1, keys in insertion order
JsonObject(item) ==
    <<" ", " ", "{", "\n">> \o
    Join(<<JsonMember(<<"v", "a", "l", "u", "e">>, item.value),
           JsonMember(<<"s", "y", "m", "b", "o", "l", "o", "g", "y">>, item.symbology),
           JsonMember(<<"c", "o", "n", "f", "i", "d", "e", "n", "c", "e">>,
                      item.confidence)>>,
         <<",", "\n">>) \o
    <<"\n", " ", " ", "}">>

\* line 125: json.dump(payload, sys.stdout, ensure_ascii=False, indent=2)
JsonDump(payload) ==
    IF payload = <<>> THEN <<"[", "]">>
    ELSE <<"[", "\n">> \o
         Join([i \in 1..Len(payload) |-> JsonObject(payload[i])], <<",", "\n">>) \o
         <<"\n", "]">>

\* lines 114-121
Payload(res) ==
    [i \in 1..Len(res) |->
        [value |-> res[i].value, symbology |-> res[i].symbology,
         confidence |-> res[i].confidence]]

\* lines 123-130: what main writes to sys.stdout
Output(res, as_json) ==
    IF as_json THEN JsonDump(Payload(res)) \o <<"\n">>
    ELSE FormatTable(Payload(res)) \o <<"\n">>

(***************************************************************************)
(* The inputs of a run.                                                    *)
(***************************************************************************)
GoodClientId == Str(<<"i", "d">>)
GoodClientSecret == Str(<<"k", "e", "y">>)
ClientIdValues == {Null, Str(<<>>), GoodClientId}
ClientSecretValues == {Null, Str(<<>>), GoodClientSecret}
BaseUrlValues == {Null, Str(<<>>), Str(<<"u">>)}

PrimaryAttributes == {"client_id", "client_secret", "api_base_url"}
AlternateAttributes == {"app_sid", "app_key", "base_url"}

RemoteFailure == <<"raise">>
RemoteAnswer(response) == <<"response", response>>

Item(value, type, code_type_name, confidence) ==
    [barcode_value |-> value, type |-> type, code_type_name |-> code_type_name,
     confidence |-> confidence]
Response(barcodes, barcode_list) == [barcodes |-> barcodes, barcode_list |-> barcode_list]

SampleEan == Item(Str(<<"1", "2", "3", "4", "5">>), Str(<<"E", "A", "N", "1", "3">>),
                  Absent, Num(9700))
SampleQr == Item(Str(<<"a", "\n", "b">>), Absent, Str(<<"Q", "R">>), Absent)

\* the answers of the remote service a whole run is checked against
MainRemote ==
    {RemoteFailure,
     RemoteAnswer(Response(List(<<SampleEan>>), Absent)),
     RemoteAnswer(Response(Absent, List(<<SampleQr, SampleEan>>))),
     RemoteAnswer(Response(List(<<>>), Absent)),
     RemoteAnswer(Response(Null, Null))}

(***************************************************************************)
(* logging_utils.py and the log calls of cli.py.                           *)
(***************************************************************************)
NoLog == [mkdir |-> FALSE, opened |-> FALSE, lines |-> <<>>]

\* configure_logging (lines 12-36) and main's lines 90-97
StartupLines(url) ==
    <<"Logging configured", "Log file initialised", "Starting barcode recognition">> \o
    (IF Truthy(url) THEN <<"Using custom base URL">> ELSE <<>>)

Logged(log, messages) == [log EXCEPT !.lines = @ \o messages]

(***************************************************************************)
(* cli.py: main, one action per step.                                      *)
(***************************************************************************)
NotBuilt == [raised |-> "unbuilt", cfg |-> <<>>]

\* mutants of line 66: "and" for "or"; the secret not looked at
CredentialsMissingBoth(cid, secret) == ~Truthy(cid) /\ ~Truthy(secret)
CredentialsMissingIdOnly(cid, secret) == ~Truthy(cid)

\* line 66: not client_id or not client_secret
CredentialsMissing(cid, secret) == ~Truthy(cid) \/ ~Truthy(secret)

\* line 89-97: log_path.parent.mkdir, FileHandler(log_path), first log lines
ConfigureLogging ==
    /\ pc = "start"
    /\ log_file' = Logged([log_file EXCEPT !.mkdir = TRUE, !.opened = TRUE],
                          StartupLines(base_url))
    /\ steps' = Append(steps, "configure_logging")
    /\ pc' = "logging_configured"
    /\ UNCHANGED <<client_id, client_secret, base_url, image_exists, json, new_sdk,
                   cfg_attrs, remote, configuration, api_client, remote_calls,
                   results, pending, exit_code, error, stdout>>

\* line 99, _ensure_credentials (lines 65-71)
EnsureCredentials ==
    /\ pc = "logging_configured"
    /\ steps' = Append(steps, "ensure_credentials")
    /\ IF CredentialsMissing(client_id, client_secret)
       THEN /\ pc' = "done"
            /\ exit_code' = 1
            /\ error' = "SystemExit: Missing credentials"
            /\ UNCHANGED log_file
       ELSE /\ pc' = "credentials_ok"
            /\ log_file' = Logged(log_file, <<"Credentials verified">>)
            /\ UNCHANGED <<exit_code, error>>
    /\ UNCHANGED <<client_id, client_secret, base_url, image_exists, json, new_sdk,
                   cfg_attrs, remote, configuration, api_client, remote_calls,
                   results, pending, stdout>>

\* lines 101-105: BarcodeReader.__init__ (42-51) and __enter__ (167-168)
ConstructAdapter ==
    /\ pc = "credentials_ok"
    /\ steps' = Append(steps, "construct_adapter")
    /\ LET built == BuildConfiguration(new_sdk, cfg_attrs, client_id, client_secret,
                                       base_url)
       IN  /\ configuration' = built
           /\ IF built.raised # "none"
              THEN /\ pc' = "done"
                   /\ exit_code' = 1
                   /\ error' = built.raised
                   /\ UNCHANGED api_client
              ELSE /\ pc' = "entered"
                   /\ api_client' = "open"
                   /\ UNCHANGED <<exit_code, error>>
    /\ UNCHANGED <<client_id, client_secret, base_url, image_exists, json, new_sdk,
                   cfg_attrs, remote, remote_calls, results, pending, stdout,
                   log_file>>

\* mutant of scan_image: the path is checked only after the remote call
ScanImageOutcomeCallFirst(exists, sdk, answer) ==
    IF ~exists
    THEN [raised |-> "FileNotFoundError", called |-> <<ApiMethod(sdk)>>, list |-> <<>>]
    ELSE IF answer = RemoteFailure
    THEN [raised |-> "RemoteError", called |-> <<ApiMethod(sdk)>>, list |-> <<>>]
    ELSE LET scanned == IF sdk THEN ScanWithNewSdk(answer[2])
                        ELSE ScanWithLegacySdk(answer[2])
         IN  [raised |-> scanned.raised, called |-> <<ApiMethod(sdk)>>,
              list |-> scanned.list]

\* BarcodeReader.scan_image (85-108): what it raises, the BarcodeApi methods it
\* calls and the list it returns
ScanImageOutcome(exists, sdk, answer) ==
    IF ~exists
    THEN [raised |-> "FileNotFoundError", called |-> <<>>, list |-> <<>>]
    ELSE IF answer = RemoteFailure
    THEN [raised |-> "RemoteError", called |-> <<ApiMethod(sdk)>>, list |-> <<>>]
    ELSE LET scanned == IF sdk THEN ScanWithNewSdk(answer[2])
                        ELSE ScanWithLegacySdk(answer[2])
         IN  [raised |-> scanned.raised, called |-> <<ApiMethod(sdk)>>,
              list |-> scanned.list]

\* lines 106-110: the body of the with block
ScanImage ==
    /\ pc = "entered"
    /\ steps' = Append(steps, "scan_image")
    /\ pc' = "exiting"
    /\ LET outcome == ScanImageOutcome(image_exists, new_sdk, remote)
       IN  /\ pending' = outcome.raised
           /\ remote_calls' = remote_calls \o outcome.called
           /\ results' = IF outcome.raised = "none" THEN outcome.list ELSE results
    /\ UNCHANGED <<client_id, client_secret, base_url, image_exists, json, new_sdk,
                   cfg_attrs, remote, configuration, api_client, exit_code, error,
                   stdout, log_file>>

\* BarcodeReader.close (164-165): self._api_client.close()
Close(handle) == "closed"

\* mutant of __exit__: close only when the body returned normally
ExitHandleOnSuccess(handle, exc) == IF exc = "none" THEN Close(handle) ELSE handle

\* BarcodeReader.__exit__ (170-171): the handle after leaving the with block
\* with exception exc pending ("none" when the body returned)
ExitHandle(handle, exc) == Close(handle)

\* mutant of __exit__: a true return value suppresses the exception
PropagatesNever(exc) == FALSE

\* __exit__ returns None, so an exception raised in the body is not suppressed
Propagates(exc) == exc # "none"

\* leaving the with block (line 105-110): __exit__, then the pending exception,
\* if any, propagates out of main
ReleaseAdapter ==
    /\ pc = "exiting"
    /\ steps' = Append(steps, "release_adapter")
    /\ api_client' = ExitHandle(api_client, pending)
    /\ IF Propagates(pending)
       THEN /\ pc' = "done"
            /\ exit_code' = 1
            /\ error' = pending
       ELSE /\ pc' = "released"
            /\ UNCHANGED <<exit_code, error>>
    /\ UNCHANGED <<client_id, client_secret, base_url, image_exists, json, new_sdk,
                   cfg_attrs, remote, configuration, remote_calls, results, pending,
                   stdout, log_file>>

\* lines 112-138: the payload is written as JSON (123-127) or as a table
\* (129-130), and main returns 0 (138).  Lines 131-136, two else branches
\* with no if and a second copy of the two writes, do not parse as Python
\* and are left out.
WriteOutput ==
    /\ pc = "released"
    /\ steps' = Append(steps, "write_output")
    /\ log_file' = Logged(log_file,
                          <<"Recognition finished",
                            IF json THEN "Writing JSON payload to stdout"
                            ELSE "Writing table output to stdout">>)
    /\ stdout' = stdout \o Output(results, json)
    /\ pc' = "done"
    /\ exit_code' = 0
    /\ UNCHANGED <<client_id, client_secret, base_url, image_exists, json, new_sdk,
                   cfg_attrs, remote, configuration, api_client, remote_calls,
                   results, pending, error>>

(***************************************************************************)
(* A whole run of main, from parsed arguments to the exit code.            *)
(***************************************************************************)
Init ==
    /\ pc = "start"
    /\ client_id \in ClientIdValues
    /\ client_secret \in ClientSecretValues
    /\ base_url \in BaseUrlValues
    /\ image_exists \in BOOLEAN
    /\ json \in BOOLEAN
    /\ new_sdk \in BOOLEAN
    /\ cfg_attrs \in IF new_sdk THEN {{}}
                     ELSE {PrimaryAttributes, AlternateAttributes, {"client_id"}}
    /\ remote \in MainRemote
    /\ configuration = NotBuilt
    /\ api_client = "none"
    /\ remote_calls = <<>>
    /\ results = <<>>
    /\ pending = "none"
    /\ exit_code = -1
    /\ error = "none"
    /\ stdout = <<>>
    /\ log_file = NoLog
    /\ steps = <<>>

Next ==
    \/ ConfigureLogging
    \/ EnsureCredentials
    \/ ConstructAdapter
    \/ ScanImage
    \/ ReleaseAdapter
    \/ WriteOutput

Spec == Init /\ [][Next]_vars

(***************************************************************************)
(* Properties of a whole run (specification Spec).                         *)
(***************************************************************************)
MissingInput ==
    \/ client_id \in {Null, Str(<<>>)}
    \/ client_secret \in {Null, Str(<<>>)}

AllSteps ==
    <<"configure_logging", "ensure_credentials", "construct_adapter", "scan_image",
      "release_adapter", "write_output">>

\* C1: when the client id or the client secret is missing (None or empty), the
\* run ends at the credential check with a non-zero exit and the
\* missing-credentials SystemExit, and no BarcodeReader is ever constructed
\* and no remote recognition call is ever made.
C1_MissingCredentialsExit ==
    MissingInput =>
        /\ configuration = NotBuilt
        /\ api_client = "none"
        /\ remote_calls = <<>>
        /\ pc \in {"start", "logging_configured", "done"}
        /\ pc = "done" =>
              /\ exit_code # 0
              /\ error = "SystemExit: Missing credentials"

C1_Witness ==
    /\ MissingInput
    /\ pc = "done"
    /\ error = "SystemExit: Missing credentials"
    /\ client_id = GoodClientId

\* C2 as stated: in a run whose image path does not exist no adapter (no
\* ApiClient) ever exists and no remote recognition call is made.
C2_NotFoundBeforeAdapter ==
    ~image_exists => (api_client = "none" /\ remote_calls = <<>>)

\* C2 amended: in a run whose image path does not exist no remote recognition
\* call is made; FileNotFoundError is raised by scan_image while the adapter's
\* ApiClient is open, and the client is closed when main ends with that error.
C2_NotFoundBeforeRemoteCall ==
    ~image_exists =>
        /\ remote_calls = <<>>
        /\ pc = "exiting" => (pending = "FileNotFoundError" /\ api_client = "open")
        /\ pc # "released"
        /\ (pc = "done" /\ api_client # "none") =>
              (error = "FileNotFoundError" /\ api_client = "closed" /\ exit_code = 1)

C2_Witness ==
    /\ ~image_exists
    /\ pc = "done"
    /\ error = "FileNotFoundError"
    /\ api_client = "closed"

\* C3: no run of main ends with an ApiClient that was created and is still
\* open: it is closed after a normal return, after FileNotFoundError from
\* scan_image and after a failure of the remote recognition call.
C3_HandleReleased ==
    /\ pc = "done" => api_client \in {"none", "closed"}
    /\ (pc = "done" /\ "construct_adapter" \in {steps[i] : i \in 1..Len(steps)}
          /\ configuration.raised = "none") => api_client = "closed"
    /\ pc = "released" => api_client = "closed"

C3_Witness ==
    /\ pc = "done"
    /\ error = "RemoteError"
    /\ remote_calls # <<>>
    /\ api_client = "closed"

\* C5 as stated: when a client id or secret is missing, nothing is created
\* or written in the file system (the log file included) and no network
\* call is made at any point of the run.
C5_NoIoBeforeExit ==
    MissingInput => (log_file = NoLog /\ remote_calls = <<>>)

\* C5 amended: when a client id or secret is missing, the run ends with the
\* missing-credentials diagnostic before any adapter construction, network
\* call or output, but after logging setup: the log directory and log file
\* have been created and the start-up log lines written.
C5_OnlyLoggingBeforeExit ==
    (MissingInput /\ pc = "done") =>
        /\ error = "SystemExit: Missing credentials"
        /\ remote_calls = <<>>
        /\ api_client = "none"
        /\ stdout = <<>>
        /\ log_file.mkdir
        /\ log_file.opened
        /\ Len(log_file.lines) >= 3
        /\ log_file.lines[1] = "Logging configured"
        /\ \A i \in 1..Len(log_file.lines) : log_file.lines[i] # "Credentials verified"

C5_Witness ==
    /\ MissingInput
    /\ pc = "done"
    /\ log_file.opened
    /\ client_secret = Null

\* C9: a run that returns 0 took the steps logging, credentials, adapter
\* construction, scan, release, output in this order, each once, with one
\* remote call; standard output is written only after the adapter has been
\* released, and a run that ends non-zero has written nothing to it.
C9_StepOrder ==
    /\ (pc = "done" /\ exit_code = 0) =>
          /\ steps = AllSteps
          /\ log_file.opened
          /\ configuration.raised = "none"
          /\ Len(remote_calls) = 1
          /\ api_client = "closed"
          /\ stdout # <<>>
    /\ stdout # <<>> => (api_client = "closed" /\ pc = "done" /\ exit_code = 0)
    /\ (pc = "done" /\ exit_code # 0) => stdout = <<>>
    /\ \A i, j \in 1..Len(steps) : steps[i] = steps[j] => i = j

C9_Witness ==
    /\ pc = "done"
    /\ exit_code = 0
    /\ steps = AllSteps
    /\ stdout # <<>>

(***************************************************************************)
(* BarcodeReader.__init__ alone: main has configured logging and accepted  *)
(* the credentials; the legacy Configuration() exposes any subset of the   *)
(* probed attribute names.                                                 *)
(***************************************************************************)
InitConfig ==
    /\ pc = "credentials_ok"
    /\ client_id = GoodClientId
    /\ client_secret = GoodClientSecret
    /\ base_url \in BaseUrlValues
    /\ image_exists = TRUE
    /\ json = FALSE
    /\ new_sdk \in BOOLEAN
    /\ cfg_attrs \in IF new_sdk THEN {{}} ELSE SUBSET LegacyAttributes
    /\ remote = RemoteFailure
    /\ configuration = NotBuilt
    /\ api_client = "none"
    /\ remote_calls = <<>>
    /\ results = <<>>
    /\ pending = "none"
    /\ exit_code = -1
    /\ error = "none"
    /\ stdout = <<>>
    /\ log_file = Logged([NoLog EXCEPT !.mkdir = TRUE, !.opened = TRUE],
                         StartupLines(base_url) \o <<"Credentials verified">>)
    /\ steps = <<"configure_logging", "ensure_credentials">>

SpecConfig == InitConfig /\ [][ConstructAdapter]_vars

\* the attribute names tried for each setting, in priority order
IdNames == <<"client_id", "app_sid">>
SecretNames == <<"client_secret", "app_key">>
UrlNames == <<"api_base_url", "base_url">>

NoneExists(names) == \A i \in 1..Len(names) : names[i] \notin cfg_attrs

\* value v went to the first existing name and the other candidates kept None
WrittenToFirst(cfg, names, v) ==
    \E i \in 1..Len(names) :
        /\ names[i] \in cfg_attrs
        /\ \A j \in 1..(i - 1) : names[j] \notin cfg_attrs
        /\ cfg[names[i]] = v
        /\ \A j \in 1..Len(names) : (j # i /\ names[j] \in cfg_attrs) => cfg[names[j]] = Null

\* C8: in the legacy variant _build_configuration either writes every supplied
\* setting (identifier, secret, base-URL override when given) to the first
\* existing attribute of its priority list and to no other candidate, or
\* raises the configuration error because a supplied setting has no attribute
\* to go to; it never returns with a supplied setting left unwritten.
C8_LegacySettingsWritten ==
    (~new_sdk /\ configuration # NotBuilt) =>
        \/ /\ configuration.raised = "AttributeError"
           /\ \/ NoneExists(IdNames)
              \/ NoneExists(SecretNames)
              \/ (Truthy(base_url) /\ NoneExists(UrlNames))
        \/ /\ configuration.raised = "none"
           /\ WrittenToFirst(configuration.cfg, IdNames, client_id)
           /\ WrittenToFirst(configuration.cfg, SecretNames, client_secret)
           /\ Truthy(base_url) => WrittenToFirst(configuration.cfg, UrlNames, base_url)

(***************************************************************************)
(* BarcodeReader.scan_image alone: the adapter is constructed and the      *)
(* image exists; the remote service answers with any response built from   *)
(* the items below.                                                        *)
(***************************************************************************)
FieldItems ==
    {Item(v, t, c, f) :
        v \in {Absent, Null, Str(<<"a">>)},
        t \in {Absent, Null, Str(<<"Q", "R">>)},
        c \in {Absent, Null, Str(<<"E", "A", "N">>)},
        f \in {Absent, Num(9700)}}

ListField(items) == {Absent, Null} \cup {List(l) : l \in SeqsUpTo(items, MaxItems)}

ScanResponses ==
    {Response(List(l), Absent) : l \in SeqsUpTo(FieldItems, MaxItems)}
    \cup {Response(b, bl) : b \in ListField({SampleEan}), bl \in ListField({SampleQr})}

InitScan ==
    /\ pc = "entered"
    /\ client_id = GoodClientId
    /\ client_secret = GoodClientSecret
    /\ base_url = Null
    /\ image_exists = TRUE
    /\ json = FALSE
    /\ new_sdk \in BOOLEAN
    /\ cfg_attrs = IF new_sdk THEN {} ELSE PrimaryAttributes
    /\ remote \in {RemoteAnswer(r) : r \in ScanResponses}
    /\ configuration = BuildConfiguration(new_sdk, cfg_attrs, client_id, client_secret,
                                          base_url)
    /\ api_client = "open"
    /\ remote_calls = <<>>
    /\ results = <<>>
    /\ pending = "none"
    /\ exit_code = -1
    /\ error = "none"
    /\ stdout = <<>>
    /\ log_file = Logged([NoLog EXCEPT !.mkdir = TRUE, !.opened = TRUE],
                         StartupLines(base_url) \o <<"Credentials verified">>)
    /\ steps = <<"configure_logging", "ensure_credentials", "construct_adapter">>

SpecScan == InitScan /\ [][ScanImage]_vars

Scanned == pc = "exiting"
Normalized(list) == [i \in 1..Len(list[2]) |-> NormalizeItem(list[2][i])]

\* C4: in both SDK variants every RecognizedBarcode scan_image returns has a
\* value and a symbology that are strings, never None: the empty string
\* stands in when the response item omits the field or holds None in it.
C4_NonNullFields ==
    (Scanned /\ pending = "none") =>
        \A i \in 1..Len(results) :
            /\ IsStr(results[i].value)
            /\ IsStr(results[i].symbology)

ValueTexts == {<<>>, <<"a", "\n", "b">>, <<"\"", "\\">>}
SymbologyTexts == {<<>>, <<"Q", "R">>}
ConfidenceValues == {Null, Num(0), Num(5), Num(9700), Num(10000)}

ResultSamples ==
    {RecognizedBarcode(Str(v), Str(t), c) :
        v \in ValueTexts, t \in SymbologyTexts, c \in ConfidenceValues}

\* a response item that normalises to the result r
ItemOf(r) ==
    Item(r.value, r.symbology, Absent, IF IsNull(r.confidence) THEN Absent ELSE r.confidence)

InitOutput ==
    /\ pc = "released"
    /\ client_id = GoodClientId
    /\ client_secret = GoodClientSecret
    /\ base_url = Null
    /\ image_exists = TRUE
    /\ json \in BOOLEAN
    /\ new_sdk = TRUE
    /\ cfg_attrs = {}
    /\ results \in SeqsUpTo(ResultSamples, MaxResults)
    /\ remote = RemoteAnswer(Response(List([i \in 1..Len(results) |-> ItemOf(results[i])]),
                                      Absent))
    /\ configuration = BuildConfiguration(new_sdk, cfg_attrs, client_id, client_secret,
                                          base_url)
    /\ api_client = "closed"
    /\ remote_calls = <<ApiMethod(new_sdk)>>
    /\ pending = "none"
    /\ exit_code = -1
    /\ error = "none"
    /\ stdout = <<>>
    /\ log_file = Logged([NoLog EXCEPT !.mkdir = TRUE, !.opened = TRUE],
                         StartupLines(base_url) \o <<"Credentials verified">>)
    /\ steps = <<"configure_logging", "ensure_credentials", "construct_adapter",
                 "scan_image", "release_adapter">>

SpecOutput == InitOutput /\ [][WriteOutput]_vars

(***************************************************************************)
(* Reading the output back.                                                *)
(***************************************************************************)
At(s, i) == IF i >= 1 /\ i <= Len(s) THEN s[i] ELSE ""

RECURSIVE SplitLines(_)
\* the lines of a text, split at each line feed
SplitLines(s) ==
    IF \A i \in 1..Len(s) : s[i] # "\n" THEN <<s>>
    ELSE LET k == CHOOSE i \in 1..Len(s) :
                      s[i] = "\n" /\ \A j \in 1..(i - 1) : s[j] # "\n"
         IN  <<SubSeq(s, 1, k - 1)>> \o SplitLines(SubSeq(s, k + 1, Len(s)))

HasLineFeed(s) == \E i \in 1..Len(s) : s[i] = "\n"

\* the percentage the table is to show for each confidence of the samples
ExpectedPercent(n) ==
    CASE n = 0 -> <<"0", ".", "0", "0">>
      [] n = 5 -> <<"0", ".", "0", "5">>
      [] n = 9700 -> <<"9", "7", ".", "0", "0">>
      [] n = 10000 -> <<"1", "0", "0", ".", "0", "0">>

\* SYMBOLOGY: VALUE, then " (NN.NN%)" exactly when the confidence is present
ExpectedLine(r) ==
    r.symbology[2] \o <<":", " ">> \o r.value[2] \o
    (IF IsNull(r.confidence) THEN <<>>
     ELSE <<" ", "(">> \o ExpectedPercent(r.confidence[2]) \o <<"%", ")">>)

TableWritten == pc = "done" /\ exit_code = 0 /\ ~json
TableText == SubSeq(stdout, 1, Len(stdout) - 1)

TableAsClaimed ==
    /\ At(stdout, Len(stdout)) = "\n"
    /\ IF results = <<>>
       THEN TableText = <<"N", "o", " ", "b", "a", "r", "c", "o", "d", "e", "s", " ",
                          "f", "o", "u", "n", "d", ".">>
       ELSE LET lines == SplitLines(TableText)
            IN  /\ Len(lines) = Len(results)
                /\ \A i \in 1..Len(results) : lines[i] = ExpectedLine(results[i])

\* C6 as stated: for any result list the table has exactly one line per entry,
\* in result order, each SYMBOLOGY: VALUE followed by " (NN.NN%)" exactly when
\* the confidence is present; for the empty list it is "No barcodes found.".
C6_OneLinePerEntry == TableWritten => TableAsClaimed

\* The table is as C6 describes it for every result list in which no value and
\* no symbology contains a line feed.
TableRowsWithoutLineFeed ==
    (TableWritten /\ \A i \in 1..Len(results) :
                        /\ ~HasLineFeed(results[i].value[2])
                        /\ ~HasLineFeed(results[i].symbology[2]))
        => TableAsClaimed

(***************************************************************************)
(* A JSON reader for arrays of objects whose members are strings, numbers  *)
(* with a decimal point, or null.  Each reader returns [ok, val, pos]: pos *)
(* is the index after what was read.                                       *)
(***************************************************************************)
Failed == [ok |-> FALSE, val |-> <<>>, pos |-> 0]
Read(val, pos) == [ok |-> TRUE, val |-> val, pos |-> pos]

RECURSIVE SkipSpace(_, _)
SkipSpace(s, i) == IF At(s, i) \in {" ", "\n"} THEN SkipSpace(s, i + 1) ELSE i

RECURSIVE ReadChars(_, _, _)
\* the characters of a string, from after the opening quote to the closing one
ReadChars(s, i, acc) ==
    LET c == At(s, i)
    IN  CASE c = "" -> Failed
          [] c = "\n" -> Failed
          [] c = "\"" -> Read(acc, i + 1)
          [] c = "\\" ->
                LET e == At(s, i + 1)
                IN  CASE e = "\"" -> ReadChars(s, i + 2, Append(acc, "\""))
                      [] e = "\\" -> ReadChars(s, i + 2, Append(acc, "\\"))
                      [] e = "n" -> ReadChars(s, i + 2, Append(acc, "\n"))
                      [] OTHER -> Failed
          [] OTHER -> ReadChars(s, i + 1, Append(acc, c))

ReadString(s, i) == IF At(s, i) = "\"" THEN ReadChars(s, i + 1, <<>>) ELSE Failed

IsDigit(c) == \E d \in 0..9 : Digit(d) = c
DigitValue(c) == CHOOSE d \in 0..9 : Digit(d) = c

RECURSIVE ReadDigits(_, _, _)
ReadDigits(s, i, acc) ==
    IF IsDigit(At(s, i)) THEN ReadDigits(s, i + 1, Append(acc, DigitValue(At(s, i))))
    ELSE Read(acc, i)

RECURSIVE DigitsValue(_)
DigitsValue(ds) ==
    IF ds = <<>> THEN 0 ELSE 10 * DigitsValue(SubSeq(ds, 1, Len(ds) - 1)) + ds[Len(ds)]

\* digits "." digits, as a number of ten-thousandths
ReadNumber(s, i) ==
    LET whole == ReadDigits(s, i, <<>>)
        part == ReadDigits(s, whole.pos + 1, <<>>)
    IN  IF /\ whole.val # <<>>
           /\ At(s, whole.pos) = "."
           /\ part.val # <<>>
           /\ Len(part.val) <= 4
        THEN Read(Num(10000 * DigitsValue(whole.val)
                      + DigitsValue(part.val \o [k \in 1..(4 - Len(part.val)) |-> 0])),
                  part.pos)
        ELSE Failed

ReadScalar(s, i) ==
    IF At(s, i) = "\""
    THEN LET str == ReadString(s, i)
         IN  IF str.ok THEN Read(Str(str.val), str.pos) ELSE Failed
    ELSE IF /\ At(s, i) = "n" /\ At(s, i + 1) = "u"
            /\ At(s, i + 2) = "l" /\ At(s, i + 3) = "l"
    THEN Read(Null, i + 4)
    ELSE ReadNumber(s, i)

RECURSIVE ReadMembers(_, _, _)
\* "key": scalar members up to the closing brace, as <<key, value>> pairs
ReadMembers(s, i, acc) ==
    LET key == ReadString(s, SkipSpace(s, i))
        colon == SkipSpace(s, key.pos)
        val == ReadScalar(s, SkipSpace(s, colon + 1))
        after == SkipSpace(s, val.pos)
        members == Append(acc, <<key.val, val.val>>)
    IN  IF ~key.ok \/ At(s, colon) # ":" THEN Failed
        ELSE IF ~val.ok THEN Failed
        ELSE IF At(s, after) = "," THEN ReadMembers(s, after + 1, members)
        ELSE IF At(s, after) = "}" THEN Read(members, after + 1)
        ELSE Failed

ReadObject(s, i) ==
    IF At(s, i) # "{" THEN Failed
    ELSE IF At(s, SkipSpace(s, i + 1)) = "}" THEN Read(<<>>, SkipSpace(s, i + 1) + 1)
    ELSE ReadMembers(s, i + 1, <<>>)

RECURSIVE ReadElements(_, _, _)
ReadElements(s, i, acc) ==
    LET obj == ReadObject(s, SkipSpace(s, i))
        after == SkipSpace(s, obj.pos)
    IN  IF ~obj.ok THEN Failed
        ELSE IF At(s, after) = "," THEN ReadElements(s, after + 1, Append(acc, obj.val))
        ELSE IF At(s, after) = "]" THEN Read(Append(acc, obj.val), after + 1)
        ELSE Failed

ReadArray(s, i) ==
    IF At(s, i) # "[" THEN Failed
    ELSE IF At(s, SkipSpace(s, i + 1)) = "]" THEN Read(<<>>, SkipSpace(s, i + 1) + 1)
    ELSE ReadElements(s, i + 1, <<>>)

\* the whole text is one array, surrounded by white space at most
ReadJson(s) ==
    LET arr == ReadArray(s, SkipSpace(s, 1))
    IN  IF arr.ok /\ SkipSpace(s, arr.pos) = Len(s) + 1 THEN arr ELSE Failed

JsonWritten == pc = "done" /\ exit_code = 0 /\ json

\* C7: in JSON mode standard output holds one JSON array and nothing else; read
\* back, it has one object per result, in result order, each with exactly the
\* keys value, symbology and confidence holding that result's fields, an absent
\* confidence being null.
C7_JsonRoundTrip ==
    JsonWritten =>
        LET parsed == ReadJson(stdout)
        IN  /\ parsed.ok
            /\ Len(parsed.val) = Len(results)
            /\ \A i \in 1..Len(results) :
                  parsed.val[i] =
                      << <<(<<"v", "a", "l", "u", "e">>), results[i].value>>,
                         <<(<<"s", "y", "m", "b", "o", "l", "o", "g", "y">>),
                           results[i].symbology>>,
                         <<(<<"c", "o", "n", "f", "i", "d", "e", "n", "c", "e">>),
                           results[i].confidence>> >>

C7_Witness ==
    /\ JsonWritten
    /\ Len(results) = 2
    /\ results[1].value = Str(<<"\"", "\\">>)
    /\ results[1].confidence = Null
    /\ results[2].value = Str(<<"a", "\n", "b">>)
    /\ results[2].confidence = Num(5)
    /\ ReadJson(stdout).ok

====
